---- MODULE Spec2Model ----
(***************************************************************************)
(* Model of python_experiments.utils: the cooperative cancellation helper  *)
(* cancel_and_wait, the scoped ContextLogger, the retry decorator and      *)
(* merge_dicts.                                                            *)
(*                                                                         *)
(* Five specifications share the module:                                   *)
(*   SpecCancel  one call of cancel_and_wait(task) made by current_task,   *)
(*               against an arbitrary target coroutine and an external     *)
(*               party that may cancel current_task during the call;       *)
(*   SpecLogger  one ContextLogger object used as a scope;                 *)
(*   SpecPing    the async scope with a sleeping body on the event loop;   *)
(*   SpecRetry   one use of retry and one call of the wrapped function;    *)
(*   SpecMerge   merge_dicts called with the same two dict objects.        *)
(* asyncio.Task is modelled by the fields the helper depends on:           *)
(* _fut_waiter, _must_cancel, _num_cancels_requested (cancelling()) and    *)
(* the future state (pending / result / exception / cancelled).            *)
(***************************************************************************)
EXTENDS Integers, Sequences, FiniteSets, TLC

VARIABLES
    task,           \* the target asyncio.Task passed to cancel_and_wait
    current_task,   \* the task executing cancel_and_wait
    marker,         \* side effects of the target coroutine, in order
    outcome,        \* how the call of cancel_and_wait ended
    status_mode,    \* ContextLogger._status_mode
    ping,           \* ContextLogger.ping
    running,        \* ContextLogger.__running
    start,          \* ContextLogger.__start
    postfixes,      \* ContextLogger._postfixes
    ping_task,      \* ContextLogger.__ping_task
    log,            \* the records handed to the logging.Logger, in order
    now,            \* datetime.now(UTC), in seconds
    scopes,         \* the with / async with blocks of the logger that are open
    owner,          \* the task that runs the `async with` block
    last,           \* the last scope operation and what it raised
    refused,        \* number of entries refused so far
    max_tries,      \* retry(max_tries=...)
    delay,          \* retry(delay=...), in seconds
    suppress_logger, \* retry(suppress_logger=...)
    func,           \* retry(func): "None" for the form retry(...)(func)
    side_effect,    \* the number of calls of func that raise before it succeeds
    args,           \* the arguments the wrapper is called with
    current_try,    \* wrapper.current_try
    loop_i,         \* the loop variable i of wrapper
    trace,          \* calls of func, warnings and sleeps of wrapper, in order
    retry_pc,       \* where the use of retry stands
    result,         \* what retry(...) or the wrapper returned or raised
    heap,           \* the dict objects reachable from the arguments of merge_dicts
    from_this,      \* merge_dicts(from_this=...), a reference into heap
    into_this,      \* merge_dicts(into_this=...), a reference into heap
    given,          \* the values of from_this and into_this before the first call
    merged          \* the value of into_this after each call of merge_dicts

cancel_vars == <<task, current_task, marker, outcome>>

logger_vars == <<status_mode, ping, running, start, postfixes, ping_task, log,
                 now, scopes, owner, last, refused>>

retry_vars == <<max_tries, delay, suppress_logger, func, side_effect, args,
                current_try, loop_i, trace, retry_pc, result>>

merge_vars == <<heap, from_this, into_this, given, merged>>

utility_vars == <<retry_vars, merge_vars>>

vars == <<task, current_task, marker, outcome, status_mode, ping, running,
          start, postfixes, ping_task, log, now, scopes, owner, last, refused,
          max_tries, delay, suppress_logger, func, side_effect, args,
          current_try, loop_i, trace, retry_pc, result,
          heap, from_this, into_this, given, merged>>

----------------------------------------------------------------------------
(* Bounds *)

\* external Task.cancel() calls on current_task during one cancel_and_wait
MaxCancels == 2
\* suspend points the target coroutine passes after it has started
MaxAwaits == 3

TaskNames == {"Task-1", "Task-2"}

\* successful entries of the logger in one behaviour
MaxEntries == 2
\* add_postfix calls in one behaviour
MaxPostfixes == 2
\* seconds the clock advances
MaxTime == 2
\* IN PROGRESS lines in one behaviour
MaxPings == 2
\* seconds the clock advances in SpecPing
MaxPingTime == 4
\* longest asyncio.sleep of a scope body in SpecPing
MaxSleep == 3
\* Task.cancel() calls on the task that owns the async scope
MaxOwnerCancels == 1
\* entries attempted while the logger is running
MaxRefused == 1

\* largest max_tries given to retry
MaxTries == 3
\* largest number of calls of func that raise before func succeeds
MaxFails == 4
\* largest delay given to retry, in seconds
MaxDelay == 1

\* nesting depth of the dict literal passed as from_this
MaxDepthFrom == 1
\* nesting depth of the dict literal passed as into_this
MaxDepthInto == 1
\* calls of merge_dicts with the same arguments
MaxMerges == 2

----------------------------------------------------------------------------
(* asyncio.Task as used by cancel_and_wait *)

\* Task.done()
done(t) == t.state # "pending"

\* Task.cancel(msg): no effect on a finished task; otherwise counts the
\* request and either cancels the pending future the task waits on or marks
\* the task so that its already scheduled step throws CancelledError.
cancel(t) ==
    IF done(t) THEN t
    ELSE IF t.fut_waiter = "pending"
         THEN [t EXCEPT !.cancelling = @ + 1, !.fut_waiter = "cancelled"]
         ELSE [t EXCEPT !.cancelling = @ + 1, !.must_cancel = TRUE]

\* Task.__step / __wakeup: does the step throw CancelledError into the coroutine
throws(t) == t.must_cancel \/ t.fut_waiter = "cancelled"

\* Task.__step is scheduled: first step, or the awaited future has completed
scheduled(t) ==
    /\ ~done(t)
    /\ \/ ~t.started
       \/ t.fut_waiter \in {"finished", "cancelled"}

\* prologue of Task.__step: the pending cancellation is consumed
step(t) == [t EXCEPT !.must_cancel = FALSE, !.fut_waiter = "none"]

----------------------------------------------------------------------------
(* The target coroutine (tests: model_task, generalised to any reaction) *)

\* first step of a task that was not cancelled: runs to its first await
model_task_start ==
    /\ scheduled(task) /\ ~task.started /\ ~throws(task)
    /\ task' = [step(task) EXCEPT !.started = TRUE, !.fut_waiter = "pending",
                                  !.awaits = @ + 1]
    /\ marker' = Append(marker, "model started")
    /\ UNCHANGED <<current_task, outcome>>
    /\ UNCHANGED <<logger_vars, utility_vars>>

\* first step of a task cancelled before it ran: CancelledError is thrown
\* into the unstarted coroutine, whose body never executes
model_task_never_started ==
    /\ scheduled(task) /\ ~task.started /\ throws(task)
    /\ task' = [step(task) EXCEPT !.state = "cancelled", !.seen_cancel = TRUE]
    /\ UNCHANGED <<marker, current_task, outcome>>
    /\ UNCHANGED <<logger_vars, utility_vars>>

\* asyncio.sleep(...) of the target elapses
sleep_elapsed ==
    /\ ~done(task) /\ task.fut_waiter = "pending"
    /\ task' = [task EXCEPT !.fut_waiter = "finished"]
    /\ UNCHANGED <<marker, current_task, outcome>>
    /\ UNCHANGED <<logger_vars, utility_vars>>

\* the coroutine resumes and suspends again: after CancelledError it is the
\* await inside the except handler (cleanup), otherwise the next await
model_task_awaits ==
    /\ scheduled(task) /\ task.started
    /\ task.awaits < MaxAwaits
    /\ task' = [step(task) EXCEPT !.fut_waiter = "pending",
                   !.awaits = @ + 1,
                   !.handling = @ \/ throws(task),
                   !.seen_cancel = @ \/ throws(task)]
    /\ UNCHANGED <<marker, current_task, outcome>>
    /\ UNCHANGED <<logger_vars, utility_vars>>

\* the coroutine ends with CancelledError: it does not catch the one thrown
\* at its await, or it finished its cleanup and re-raises
model_task_raises_cancelled ==
    /\ scheduled(task) /\ task.started
    /\ throws(task) \/ task.handling
    /\ task' = [step(task) EXCEPT !.state = "cancelled", !.seen_cancel = TRUE]
    /\ marker' = IF task.handling /\ ~throws(task)
                 THEN Append(marker, "model cancelled")
                 ELSE marker
    /\ UNCHANGED <<current_task, outcome>>
    /\ UNCHANGED <<logger_vars, utility_vars>>

\* the coroutine returns normally (suppressing CancelledError if it got one)
model_task_returns ==
    /\ scheduled(task) /\ task.started
    /\ task' = [step(task) EXCEPT !.state = "result",
                   !.seen_cancel = @ \/ throws(task)]
    /\ marker' = IF task.handling \/ throws(task)
                 THEN marker \o <<"model cancelled", "model finished">>
                 ELSE Append(marker, "model finished")
    /\ UNCHANGED <<current_task, outcome>>
    /\ UNCHANGED <<logger_vars, utility_vars>>

\* the coroutine ends with an exception other than CancelledError
model_task_raises_error ==
    /\ scheduled(task) /\ task.started
    /\ task' = [step(task) EXCEPT !.state = "exception",
                   !.seen_cancel = @ \/ throws(task)]
    /\ UNCHANGED <<marker, current_task, outcome>>
    /\ UNCHANGED <<logger_vars, utility_vars>>

----------------------------------------------------------------------------
(* cancel_and_wait *)

\* await_task that treats a failed task like one that returned
await_task_swallow(t, must_cancel) ==
    IF must_cancel \/ t.state = "cancelled" THEN "CancelledError"
    ELSE "none"

\* what `await task` delivers when the caller is resumed (line 34)
await_task(t, must_cancel) ==
    IF must_cancel \/ t.state = "cancelled" THEN "CancelledError"
    ELSE IF t.state = "exception" THEN "TaskError"
    ELSE "none"

\* resolve with the legacy branch of lines 42-44 taken: CancelledError is
\* always swallowed
resolve_legacy(exc, cancelling) ==
    IF exc = "CancelledError" THEN "return"
    ELSE IF exc = "none" THEN "RuntimeError"
    ELSE exc

\* resolve without the cancelling() test of line 51: CancelledError is always
\* re-raised
resolve_reraise(exc, cancelling) ==
    IF exc = "CancelledError" THEN "CancelledError"
    ELSE IF exc = "none" THEN "RuntimeError"
    ELSE exc

\* resolve without lines 55-57: a task that ended without CancelledError is
\* accepted
resolve_lenient(exc, cancelling) ==
    IF exc = "CancelledError"
    THEN IF cancelling > 0 THEN "CancelledError" ELSE "return"
    ELSE IF exc = "none" THEN "return"
    ELSE exc

\* lines 35-57: the resolution of the outcome from what the await delivered
resolve(exc, cancelling) ==
    IF exc = "CancelledError"
    THEN IF cancelling > 0 THEN "CancelledError" ELSE "return"
    ELSE IF exc = "none" THEN "RuntimeError"
    ELSE exc

\* finish whose RuntimeError message does not include the task
finish_anonymous(t, exc, cancelling) ==
    [kind |-> resolve(exc, cancelling), names |-> "-"]

\* lines 35-57 as the end of the call: the outcome handed to the caller's
\* caller; the RuntimeError message of line 56 names the awaited task
finish(t, exc, cancelling) ==
    [kind |-> resolve(exc, cancelling),
     names |-> IF resolve(exc, cancelling) = "RuntimeError" THEN t.name ELSE "-"]

\* lines 32-34: task.cancel(msg); await task.  The caller suspends on a task
\* that is not done; a task that is already done is not waited for and the
\* call runs to its end in the same step.
cancel_and_wait ==
    /\ current_task.pc = "call"
    /\ task' = cancel(task)
    /\ IF done(task)
       THEN /\ outcome' = finish(task, await_task(task, FALSE), current_task.cancelling)
            /\ current_task' = [current_task EXCEPT !.pc = "done",
                                   !.exc = await_task(task, FALSE)]
       ELSE /\ current_task' = [current_task EXCEPT !.pc = "await",
                                   !.signalled = TRUE]
            /\ UNCHANGED outcome
    /\ UNCHANGED marker
    /\ UNCHANGED <<logger_vars, utility_vars>>

\* somebody calls current_task.cancel() while it is suspended in `await task`:
\* the request is forwarded to the awaited task; if that one is already done
\* the caller's scheduled wakeup is marked to throw CancelledError
cancel_current_task ==
    /\ current_task.pc = "await"
    /\ current_task.cancelling < MaxCancels
    /\ IF done(task)
       THEN /\ current_task' = [current_task EXCEPT !.cancelling = @ + 1,
                                                    !.cancelled_waiting = TRUE,
                                                    !.must_cancel = TRUE]
            /\ UNCHANGED task
       ELSE /\ current_task' = [current_task EXCEPT !.cancelling = @ + 1,
                                                    !.cancelled_waiting = TRUE]
            /\ task' = cancel(task)
    /\ UNCHANGED <<marker, outcome>>
    /\ UNCHANGED <<logger_vars, utility_vars>>

\* wakeup as soon as the cancellation has been requested
wakeup_on_request(t) == done(t) \/ t.cancelling > 0

\* wakeup that does not wait for the task
wakeup_early(t) == TRUE

\* `await task` registers the caller's wakeup as a done-callback of the task:
\* the caller is resumed only once the task is done
wakeup(t) == done(t)

\* the wakeup of the caller once the target is done, up to the end of the call
cancel_and_wait_resume ==
    /\ current_task.pc = "await"
    /\ wakeup(task)
    /\ LET exc == await_task(task, current_task.must_cancel)
       IN /\ outcome' = finish(task, exc, current_task.cancelling)
          /\ current_task' = [current_task EXCEPT !.pc = "done",
                                 !.must_cancel = FALSE, !.exc = exc,
                                 !.late_cancel = current_task.must_cancel]
    /\ UNCHANGED <<task, marker>>
    /\ UNCHANGED <<logger_vars, utility_vars>>

----------------------------------------------------------------------------

----------------------------------------------------------------------------
(* ContextLogger *)

\* texts passed to add_postfix
Messages == {"postinfo", "more"}

\* exceptions a scope body may raise
Exceptions == {"RuntimeError", "ValueError"}

\* self.__ping_task = None
NoTask == [state |-> "none", started |-> FALSE, fut_waiter |-> "none",
           must_cancel |-> FALSE, cancelling |-> 0, deadline |-> 0, entry |-> 0]

\* the task that uses the logger: not cancelled, not suspended; wake, since,
\* slept and scope describe its suspension inside a scope body (SpecPing)
NewOwner == [pc |-> "run", must_cancel |-> FALSE, cancelling |-> 0, exc |-> "None",
             wake |-> 0, since |-> 0, slept |-> 0, scope |-> 0]

\* retry is not used in SpecCancel, SpecLogger and SpecPing
NoRetry ==
    /\ max_tries = 1
    /\ delay = 0
    /\ suppress_logger = FALSE
    /\ func = "None"
    /\ side_effect = 0
    /\ args = "none"
    /\ current_try = -1
    /\ loop_i = 0
    /\ trace = << >>
    /\ retry_pc = "unused"
    /\ result = [kind |-> "none"]

\* merge_dicts is not called in the specifications of the other helpers
NoMerge ==
    /\ heap = << >>
    /\ from_this = << >>
    /\ into_this = << >>
    /\ given = << >>
    /\ merged = << >>

\* no ContextLogger takes part in SpecCancel
NoLogger ==
    /\ status_mode = FALSE /\ ping = 0 /\ running = FALSE /\ start = 0
    /\ postfixes = << >> /\ ping_task = NoTask /\ log = << >> /\ now = 1
    /\ scopes = << >> /\ refused = 0
    /\ owner = NewOwner
    /\ last = [op |-> "init", raised |-> "None"]

\* no separate call of cancel_and_wait takes part in SpecLogger
NoCancel ==
    /\ task = [name |-> "Task-1", state |-> "pending", started |-> FALSE,
               fut_waiter |-> "none", must_cancel |-> FALSE, cancelling |-> 0,
               awaits |-> 0, handling |-> FALSE, seen_cancel |-> FALSE]
    /\ marker = << >>
    /\ current_task = [pc |-> "idle", must_cancel |-> FALSE, cancelling |-> 0,
                       signalled |-> FALSE, cancelled_waiting |-> FALSE,
                       late_cancel |-> FALSE, exc |-> "none"]
    /\ outcome = [kind |-> "none", names |-> "-"]

\* _format: the rendered record "[tag] msg postfixes [elapsed]"; entry is the
\* number of the scope entry the record belongs to
format(tag, pf, elapsed, e) ==
    [tag |-> tag, message |-> "task", postfixes |-> pf, elapsed |-> elapsed,
     entry |-> e]

\* the scopes that are open, innermost last
open_scopes == {e \in DOMAIN scopes : scopes[e].open}

\* the with-block whose exit runs next
innermost == CHOOSE e \in open_scopes : \A f \in open_scopes : f <= e

\* __enter__ that lets a running logger be entered again
enter_raises_never(r) == FALSE

\* line 194: __enter__ raises RuntimeError when the logger is running
enter_raises(r) == r

\* enter_call that logs STARTED in status mode too
enter_call_always_logs(kind, e) ==
    /\ running' = TRUE
    /\ start' = now
    /\ log' = Append(log, format("STARTED", postfixes, << >>, e))
    /\ scopes' = Append(scopes, [kind |-> kind, open |-> TRUE, exc |-> "None",
                                  raised |-> "None"])

\* lines 197-203: the successful __enter__ of scope number e
enter_call(kind, e) ==
    /\ running' = TRUE
    /\ start' = now
    /\ log' = IF status_mode THEN log
              ELSE Append(log, format("STARTED", postfixes, << >>, e))
    /\ scopes' = Append(scopes, [kind |-> kind, open |-> TRUE, exc |-> "None",
                                  raised |-> "None"])

\* `with logger:` evaluates logger.__enter__()
enter ==
    /\ IF enter_raises(running)
       THEN /\ refused < MaxRefused
            /\ refused' = refused + 1
            /\ last' = [op |-> "enter", raised |-> "RuntimeError"]
            /\ UNCHANGED <<running, start, log, scopes>>
       ELSE /\ Len(scopes) < MaxEntries
            /\ enter_call("sync", Len(scopes) + 1)
            /\ last' = [op |-> "enter", raised |-> "None"]
            /\ UNCHANGED refused
    /\ UNCHANGED <<status_mode, ping, postfixes, ping_task, now, owner>>
    /\ UNCHANGED <<cancel_vars, utility_vars>>

\* asyncio.create_task(self._ping()) for scope number e
create_task(e) ==
    [state |-> "pending", started |-> FALSE, fut_waiter |-> "none",
     must_cancel |-> FALSE, cancelling |-> 0, deadline |-> 0, entry |-> e]

\* `async with logger:` awaits logger.__aenter__() (lines 229-235)
aenter ==
    /\ owner.pc = "run"
    /\ IF enter_raises(running)
       THEN /\ refused < MaxRefused
            /\ refused' = refused + 1
            /\ last' = [op |-> "aenter", raised |-> "RuntimeError"]
            /\ UNCHANGED <<running, start, log, scopes, ping_task>>
       ELSE /\ Len(scopes) < MaxEntries
            /\ enter_call("async", Len(scopes) + 1)
            /\ ping_task' = IF ping > 0 /\ ~status_mode
                            THEN create_task(Len(scopes) + 1)
                            ELSE ping_task
            /\ last' = [op |-> "aenter", raised |-> "None"]
            /\ UNCHANGED refused
    /\ UNCHANGED <<status_mode, ping, postfixes, now, owner>>
    /\ UNCHANGED <<cancel_vars, utility_vars>>

\* add_postfix(message), lines 183-185
add_postfix ==
    /\ Len(postfixes) < MaxPostfixes
    /\ \E m \in Messages : postfixes' = Append(postfixes, m)
    /\ UNCHANGED <<status_mode, ping, running, start, ping_task, log, now,
                   scopes, owner, last, refused>>
    /\ UNCHANGED <<cancel_vars, utility_vars>>

\* the clock advances
tick ==
    /\ now < MaxTime
    /\ now' = now + 1
    /\ UNCHANGED <<status_mode, ping, running, start, postfixes, ping_task,
                   log, scopes, owner, last, refused>>
    /\ UNCHANGED <<cancel_vars, utility_vars>>

\* exit_tag without lines 217-218: an exception does not change the tag
exit_tag_no_exception(status, exc) ==
    IF status THEN "STATUS" ELSE "FINISHED"

\* exit_tag with the status test after the exception test
exit_tag_status_last(status, exc) ==
    IF status THEN "STATUS"
    ELSE IF exc # "None" THEN "EXCEPTION"
    ELSE "FINISHED"

\* lines 211-218: the tag of the exit line
exit_tag(status, exc) ==
    IF exc # "None" THEN "EXCEPTION"
    ELSE IF status THEN "STATUS"
    ELSE "FINISHED"

\* lines 212-215: the elapsed time of the exit line
exit_elapsed == IF status_mode THEN << >> ELSE <<now - start>>

\* line 219-220: the postfix naming the exception's type
auto_postfix(exc) ==
    CASE exc = "RuntimeError" -> "- [RuntimeError]"
      [] exc = "ValueError" -> "- [ValueError]"
      [] exc = "CancelledError" -> "- [CancelledError]"

\* exit_postfixes with the exception postfix put in front of the list
exit_postfixes_auto_first(exc) ==
    IF exc # "None" THEN <<auto_postfix(exc)>> \o postfixes ELSE postfixes

\* lines 217-220: the postfix list the exit line is rendered with
exit_postfixes(exc) ==
    IF exc # "None" THEN Append(postfixes, auto_postfix(exc)) ELSE postfixes

\* __exit__(exc), lines 209-221, closing scope number e
exit_call(exc, e) ==
    /\ running' = FALSE
    /\ postfixes' = exit_postfixes(exc)
    /\ log' = Append(log, format(exit_tag(status_mode, exc), exit_postfixes(exc),
                                 exit_elapsed, e))
    /\ scopes' = [scopes EXCEPT ![e].open = FALSE, ![e].exc = exc]

\* the end of a `with logger:` block: logger.__exit__(exc)
exit ==
    /\ open_scopes # {}
    /\ scopes[innermost].kind = "sync"
    /\ \E exc \in Exceptions \cup {"None"} : exit_call(exc, innermost)
    /\ last' = [op |-> "exit", raised |-> "None"]
    /\ UNCHANGED <<status_mode, ping, start, ping_task, now, owner, refused>>
    /\ UNCHANGED <<cancel_vars, utility_vars>>

\* _ping, lines 223-225: the first step of the ping task runs to its sleep
ping_start ==
    /\ scheduled(ping_task) /\ ~ping_task.started /\ ~throws(ping_task)
    /\ ping_task' = [step(ping_task) EXCEPT !.started = TRUE,
                        !.fut_waiter = "pending", !.deadline = now + ping]
    /\ UNCHANGED <<status_mode, ping, running, start, postfixes, log, now,
                   scopes, owner, last, refused>>
    /\ UNCHANGED <<cancel_vars, utility_vars>>

\* asyncio.sleep(self.ping) of the ping task elapses
ping_sleep_elapsed ==
    /\ ~done(ping_task) /\ ping_task.fut_waiter = "pending"
    /\ now >= ping_task.deadline
    /\ ping_task' = [ping_task EXCEPT !.fut_waiter = "finished"]
    /\ UNCHANGED <<status_mode, ping, running, start, postfixes, log, now,
                   scopes, owner, last, refused>>
    /\ UNCHANGED <<cancel_vars, utility_vars>>

\* number of IN PROGRESS records
pings == Cardinality({i \in DOMAIN log : log[i].tag = "IN PROGRESS"})

\* ping_log without line 227: the loop sleeps again without logging
ping_log_silent ==
    /\ scheduled(ping_task) /\ ping_task.started /\ ~throws(ping_task)
    /\ ping_task' = [step(ping_task) EXCEPT !.fut_waiter = "pending",
                        !.deadline = now + ping]
    /\ UNCHANGED <<status_mode, ping, running, start, postfixes, log, now, scopes,
                   owner, last, refused>>
    /\ UNCHANGED <<cancel_vars, utility_vars>>

\* _ping, lines 225-227 and back to 225: log IN PROGRESS, sleep again
ping_log ==
    /\ scheduled(ping_task) /\ ping_task.started /\ ~throws(ping_task)
    /\ pings < MaxPings
    /\ log' = Append(log, format("IN PROGRESS", postfixes, <<now - start>>,
                                 ping_task.entry))
    /\ ping_task' = [step(ping_task) EXCEPT !.fut_waiter = "pending",
                        !.deadline = now + ping]
    /\ UNCHANGED <<status_mode, ping, running, start, postfixes, now, scopes,
                   owner, last, refused>>
    /\ UNCHANGED <<cancel_vars, utility_vars>>

\* _ping receives CancelledError (at its sleep or before its first step) and
\* does not catch it
ping_cancelled ==
    /\ scheduled(ping_task) /\ throws(ping_task)
    /\ ping_task' = [step(ping_task) EXCEPT !.state = "cancelled"]
    /\ UNCHANGED <<status_mode, ping, running, start, postfixes, log, now,
                   scopes, owner, last, refused>>
    /\ UNCHANGED <<cancel_vars, utility_vars>>

\* line 244 after cancel_and_wait ended with r: __exit__ runs only if it
\* returned; otherwise r leaves __aexit__ and the block
aexit_finish(r, exc, e) ==
    IF r = "return"
    THEN /\ exit_call(exc, e)
         /\ last' = [op |-> "aexit", raised |-> "None"]
    ELSE /\ scopes' = [scopes EXCEPT ![e].open = FALSE, ![e].exc = exc,
                                     ![e].raised = r]
         /\ last' = [op |-> "aexit", raised |-> r]
         /\ UNCHANGED <<running, postfixes, log>>

\* the end of an `async with logger:` block: logger.__aexit__(exc), lines
\* 241-244, up to the suspension in cancel_and_wait (line 34) if there is one
aexit ==
    /\ owner.pc = "run"
    /\ open_scopes # {}
    /\ scopes[innermost].kind = "async"
    /\ \E exc \in Exceptions \cup {"None"}
                  \cup (IF owner.cancelling > 0 THEN {"CancelledError"} ELSE {}) :
          IF ping_task.state = "none"
          THEN /\ aexit_finish("return", exc, innermost)
               /\ UNCHANGED <<ping_task, owner>>
          ELSE IF done(ping_task)
          THEN /\ aexit_finish(resolve(await_task(ping_task, FALSE), owner.cancelling),
                               exc, innermost)
               /\ UNCHANGED <<ping_task, owner>>
          ELSE /\ ping_task' = cancel(ping_task)
               /\ owner' = [owner EXCEPT !.pc = "await", !.exc = exc]
               /\ UNCHANGED <<running, postfixes, log, scopes, last>>
    /\ UNCHANGED <<status_mode, ping, start, now, refused>>
    /\ UNCHANGED <<cancel_vars, utility_vars>>

\* __aexit__ resumed in cancel_and_wait once the ping task is done
aexit_resume ==
    /\ owner.pc = "await"
    /\ wakeup(ping_task)
    /\ aexit_finish(resolve(await_task(ping_task, owner.must_cancel), owner.cancelling),
                    owner.exc, innermost)
    /\ owner' = [owner EXCEPT !.pc = "run", !.must_cancel = FALSE, !.exc = "None"]
    /\ UNCHANGED <<status_mode, ping, start, ping_task, now, refused>>
    /\ UNCHANGED <<cancel_vars, utility_vars>>

\* somebody calls Task.cancel() on the task that owns the async scope: while it
\* is suspended in __aexit__ the request goes to the ping task it awaits (or
\* to its own scheduled wakeup); otherwise CancelledError is delivered at the
\* await the task is suspended at
cancel_owner ==
    /\ owner.cancelling < MaxOwnerCancels
    /\ IF owner.pc = "await"
       THEN IF done(ping_task)
            THEN /\ owner' = [owner EXCEPT !.cancelling = @ + 1, !.must_cancel = TRUE]
                 /\ UNCHANGED ping_task
            ELSE /\ owner' = [owner EXCEPT !.cancelling = @ + 1]
                 /\ ping_task' = cancel(ping_task)
       ELSE /\ owner' = [owner EXCEPT !.cancelling = @ + 1]
            /\ UNCHANGED ping_task
    /\ UNCHANGED <<status_mode, ping, running, start, postfixes, log, now,
                   scopes, last, refused>>
    /\ UNCHANGED <<cancel_vars, utility_vars>>

\* ContextLogger.__init__ (lines 94-105) with msg = "task"
InitLogger ==
    /\ status_mode \in BOOLEAN
    /\ ping \in {0, 1}
    /\ running = FALSE
    /\ start = 0
    /\ postfixes = << >>
    /\ ping_task = NoTask
    /\ log = << >>
    /\ now = 1
    /\ scopes = << >>
    /\ owner = NewOwner
    /\ last = [op |-> "init", raised |-> "None"]
    /\ refused = 0
    /\ NoCancel
    /\ NoRetry
    /\ NoMerge

\* the target has been created (asyncio.create_task) and runs on its own
\* until some step of the caller invokes cancel_and_wait; the caller may
\* carry a cancellation request it received earlier
InitCancel ==
    /\ \E n \in TaskNames :
          task = [name |-> n, state |-> "pending", started |-> FALSE,
                  fut_waiter |-> "none", must_cancel |-> FALSE, cancelling |-> 0,
                  awaits |-> 0, handling |-> FALSE, seen_cancel |-> FALSE]
    /\ marker = << >>
    /\ \E c \in 0..1 :
          current_task = [pc |-> "call", must_cancel |-> FALSE, cancelling |-> c,
                          signalled |-> FALSE, cancelled_waiting |-> FALSE,
                          late_cancel |-> FALSE, exc |-> "none"]
    /\ outcome = [kind |-> "none", names |-> "-"]
    /\ NoLogger
    /\ NoRetry
    /\ NoMerge

NextCancel ==
    \/ cancel_and_wait
    \/ cancel_current_task
    \/ cancel_and_wait_resume
    \/ model_task_start
    \/ model_task_never_started
    \/ sleep_elapsed
    \/ model_task_awaits
    \/ model_task_raises_cancelled
    \/ model_task_returns
    \/ model_task_raises_error

SpecCancel == InitCancel /\ [][NextCancel]_vars

NextLogger ==
    \/ enter
    \/ aenter
    \/ add_postfix
    \/ tick
    \/ exit
    \/ ping_start
    \/ ping_sleep_elapsed
    \/ ping_log
    \/ ping_cancelled
    \/ aexit
    \/ aexit_resume
    \/ cancel_owner

SpecLogger == InitLogger /\ [][NextLogger]_vars

----------------------------------------------------------------------------
(* The async scope on the event loop (SpecPing): the body is                *)
(* `await asyncio.sleep(d)` as in test_async_simple_context; the ping task  *)
(* runs only while the owner is suspended, and the loop runs what is ready  *)
(* or due before the clock advances.                                        *)

\* the owner is suspended, so the event loop runs other tasks
suspended == owner.pc \in {"sleep", "await"}

\* the scope body awaits asyncio.sleep(d)
body_sleep ==
    /\ owner.pc = "run"
    /\ open_scopes # {} /\ scopes[innermost].kind = "async"
    /\ \E d \in 0..MaxSleep :
          owner' = [owner EXCEPT !.pc = "sleep", !.wake = now + d, !.since = now]
    /\ UNCHANGED <<status_mode, ping, running, start, postfixes, ping_task, log,
                   now, scopes, last, refused>>
    /\ UNCHANGED <<cancel_vars, utility_vars>>

\* the sleep of the body is over and the body continues
body_resume ==
    /\ owner.pc = "sleep"
    /\ now >= owner.wake
    /\ owner' = [owner EXCEPT !.pc = "run", !.slept = now - owner.since,
                              !.scope = innermost]
    /\ UNCHANGED <<status_mode, ping, running, start, postfixes, ping_task, log,
                   now, scopes, last, refused>>
    /\ UNCHANGED <<cancel_vars, utility_vars>>

\* Task.cancel() on the owner while its body sleeps: the sleep is cancelled
\* and the body is resumed with CancelledError
cancel_sleeping_owner ==
    /\ owner.pc = "sleep"
    /\ owner.cancelling < MaxOwnerCancels
    /\ owner' = [owner EXCEPT !.cancelling = @ + 1, !.wake = now]
    /\ UNCHANGED <<status_mode, ping, running, start, postfixes, ping_task, log,
                   now, scopes, last, refused>>
    /\ UNCHANGED <<cancel_vars, utility_vars>>

\* Task.cancel() on the owner while it is suspended in __aexit__
cancel_exiting_owner == owner.pc = "await" /\ cancel_owner

\* the steps of the ping task, taken by the loop while the owner is suspended
loop_ping_start == suspended /\ ping_start

loop_ping_sleep_elapsed == suspended /\ ping_sleep_elapsed

loop_ping_log == suspended /\ ping_log

loop_ping_cancelled == suspended /\ ping_cancelled

\* something is ready to run or due on the event loop
loop_busy ==
    \/ scheduled(ping_task)
    \/ ~done(ping_task) /\ ping_task.fut_waiter = "pending" /\ now >= ping_task.deadline
    \/ owner.pc = "sleep" /\ now >= owner.wake
    \/ owner.pc = "await" /\ wakeup(ping_task)

\* the clock advances: during synchronous work of the owner, or when the
\* event loop has nothing ready and nothing due
tick_loop ==
    /\ now < MaxPingTime
    /\ pings < MaxPings
    /\ suspended => ~loop_busy
    /\ now' = now + 1
    /\ UNCHANGED <<status_mode, ping, running, start, postfixes, ping_task,
                   log, scopes, owner, last, refused>>
    /\ UNCHANGED <<cancel_vars, utility_vars>>

\* ContextLogger(msg="task", status=..., ping=...)
InitPing ==
    /\ status_mode \in BOOLEAN
    /\ ping \in {-1, 0, 1, 2}
    /\ running = FALSE
    /\ start = 0
    /\ postfixes = << >>
    /\ ping_task = NoTask
    /\ log = << >>
    /\ now = 1
    /\ scopes = << >>
    /\ owner = NewOwner
    /\ last = [op |-> "init", raised |-> "None"]
    /\ refused = 0
    /\ NoCancel
    /\ NoRetry
    /\ NoMerge

NextPing ==
    \/ aenter
    \/ body_sleep
    \/ body_resume
    \/ cancel_sleeping_owner
    \/ cancel_exiting_owner
    \/ loop_ping_start
    \/ loop_ping_sleep_elapsed
    \/ loop_ping_log
    \/ loop_ping_cancelled
    \/ tick_loop
    \/ aexit
    \/ aexit_resume

SpecPing == InitPing /\ [][NextPing]_vars

----------------------------------------------------------------------------
(* retry: one use of the decorator and one call of the wrapped function    *)
(* (SpecRetry). func is a Mock with a side_effect: its first side_effect   *)
(* calls raise an Exception each, the later ones return.                   *)

\* the arguments the wrapped function is called with
Args == {"arg1", "arg2"}

\* the Exception raised by the n-th call of func
error(n) ==
    [kind |-> IF n % 2 = 1 THEN "ValueError" ELSE "TypeError", message |-> n]

\* the value returned by the n-th call of func with arguments a
return_value(n, a) == [call |-> n, args |-> a]

\* the n-th call of func raises
func_raises(n) == n <= side_effect

\* the positions of the calls of func in a trace
call_events(tr) == {j \in DOMAIN tr : tr[j].ev = "call"}

\* retry that accepts max_tries = 0
rejected_negative(m) == m < 0

\* line 399: the test on max_tries
rejected(m) == m <= 0

\* the test of line 411 taken one iteration later
exhausted_late(n, m) == n >= m

\* line 411: iteration n was the last one allowed
exhausted(n, m) == n + 1 >= m

\* lines 414-416: the three warnings for the error of iteration n
warning(exc, n) ==
    [ev |-> "warning", kind |-> exc.kind, message |-> exc.message,
     retry |-> n + 2, of |-> max_tries]

\* the handler without line 417
handler_events_no_sleep(exc, n) ==
    IF suppress_logger THEN << >> ELSE <<warning(exc, n)>>

\* lines 413-417: what the handler does before the next iteration
handler_events(exc, n) ==
    (IF suppress_logger THEN << >> ELSE <<warning(exc, n)>>)
        \o <<[ev |-> "sleep", delay |-> delay]>>

\* retry(func, ...) or retry(...), lines 397-427
retry ==
    /\ retry_pc = "retry"
    /\ IF rejected(max_tries)
       THEN /\ retry_pc' = "ValueError"
            /\ result' = [kind |-> "raise",
                          value |-> [kind |-> "ValueError", message |-> max_tries]]
       ELSE /\ retry_pc' = IF func # "None" THEN "wrapper" ELSE "retry_decorator"
            /\ UNCHANGED result
    /\ UNCHANGED <<max_tries, delay, suppress_logger, func, side_effect, args,
                   current_try, loop_i, trace>>
    /\ UNCHANGED <<cancel_vars, logger_vars, merge_vars>>

\* retry_decorator(func), lines 403-422: the decorator returned by retry(...)
\* is applied to the function
retry_decorator ==
    /\ retry_pc = "retry_decorator"
    /\ retry_pc' = "wrapper"
    /\ UNCHANGED <<max_tries, delay, suppress_logger, func, side_effect, args,
                   current_try, loop_i, trace, result>>
    /\ UNCHANGED <<cancel_vars, logger_vars, merge_vars>>

\* wrapper(*args), line 405-406: the wrapped function is called
wrapper ==
    /\ retry_pc = "wrapper"
    /\ \E a \in Args : args' = a
    /\ loop_i' = 0
    /\ retry_pc' = "for"
    /\ UNCHANGED <<max_tries, delay, suppress_logger, func, side_effect,
                   current_try, trace, result>>
    /\ UNCHANGED <<cancel_vars, logger_vars, merge_vars>>

\* lines 406-422: one iteration of the loop, up to the return, the raise or
\* the sleep; after the last iteration the AssertionError of line 422
wrapper_try ==
    /\ retry_pc = "for"
    /\ IF loop_i >= max_tries
       THEN /\ retry_pc' = "raised"
            /\ result' = [kind |-> "raise",
                          value |-> [kind |-> "AssertionError", message |-> 0]]
            /\ UNCHANGED <<current_try, trace>>
       ELSE LET n == Cardinality(call_events(trace)) + 1
                call == [ev |-> "call", args |-> args, n |-> n]
            IN  /\ current_try' = loop_i
                /\ IF ~func_raises(n)
                   THEN /\ trace' = Append(trace, call)
                        /\ retry_pc' = "returned"
                        /\ result' = [kind |-> "return",
                                      value |-> return_value(n, args)]
                   ELSE IF exhausted(loop_i, max_tries)
                   THEN /\ trace' = Append(trace, call)
                        /\ retry_pc' = "raised"
                        /\ result' = [kind |-> "raise", value |-> error(n)]
                   ELSE /\ trace' = Append(trace, call) \o handler_events(error(n), loop_i)
                        /\ retry_pc' = "sleep"
                        /\ UNCHANGED result
    /\ UNCHANGED <<max_tries, delay, suppress_logger, func, side_effect, args, loop_i>>
    /\ UNCHANGED <<cancel_vars, logger_vars, merge_vars>>

\* line 417 returns: the next iteration begins
time_sleep_elapsed ==
    /\ retry_pc = "sleep"
    /\ loop_i' = loop_i + 1
    /\ retry_pc' = "for"
    /\ UNCHANGED <<max_tries, delay, suppress_logger, func, side_effect, args,
                   current_try, trace, result>>
    /\ UNCHANGED <<cancel_vars, logger_vars, merge_vars>>

\* retry(func, delay=, max_tries=, suppress_logger=) or the same without func
InitRetry ==
    /\ max_tries \in -1..MaxTries
    /\ delay \in 0..MaxDelay
    /\ suppress_logger \in BOOLEAN
    /\ func \in {"None", "mock_func"}
    /\ side_effect \in 0..MaxFails
    /\ args = "none"
    /\ current_try = -1
    /\ loop_i = 0
    /\ trace = << >>
    /\ retry_pc = "retry"
    /\ result = [kind |-> "none"]
    /\ NoCancel
    /\ NoLogger
    /\ NoMerge

NextRetry ==
    \/ retry
    \/ retry_decorator
    \/ wrapper
    \/ wrapper_try
    \/ time_sleep_elapsed

SpecRetry == InitRetry /\ [][NextRetry]_vars

----------------------------------------------------------------------------
(* merge_dicts: calls with the same two dict objects (SpecMerge). A dict   *)
(* is an object of the heap; a value is a leaf or a reference to a dict,   *)
(* so that line 64 stores the object of from_this itself, as Python does.  *)
(* The arguments are built from dict literals, as in test_other_utils.py:  *)
(* before the first call no object is shared.                              *)

Keys == {"a", "b"}

\* the orders in which from_this.items() may yield the keys
Orders == {<<"a", "b">>, <<"b", "a">>}

\* the dict literals nested at most depth levels, with leaves n
RECURSIVE Dicts(_, _)
Dicts(depth, n) ==
    UNION {[ks -> {[leaf |-> n]} \cup
                  (IF depth = 0 THEN {}
                   ELSE {[dict |-> d] : d \in Dicts(depth - 1, n)})]
           : ks \in SUBSET Keys}

\* the dict objects of literal d, the outermost one stored under reference r
RECURSIVE objects(_, _)
objects(d, r) ==
    {<<r, d>>} \cup
    UNION {objects(d[k].dict, Append(r, k)) :
           k \in {x \in DOMAIN d : "dict" \in DOMAIN d[x]}}

\* the object stored for literal d: nested literals become references
stored(d, r) ==
    [k \in DOMAIN d |->
        IF "dict" \in DOMAIN d[k] THEN [ref |-> Append(r, k)] ELSE d[k]]

\* the heap after evaluating the literals F and D
allocate(F, D) ==
    LET objs == objects(F, <<"from_this">>) \cup objects(D, <<"into_this">>)
    IN  [r \in {o[1] : o \in objs} |->
            stored((CHOOSE o \in objs : o[1] = r)[2], r)]

\* isinstance(v, dict)
is_dict(v) == "ref" \in DOMAIN v

\* the value of the dict object r, compared with == in the tests
RECURSIVE contents(_, _)
contents(h, r) ==
    [k \in DOMAIN h[r] |->
        IF is_dict(h[r][k]) THEN [dict |-> contents(h, h[r][k].ref)]
        ELSE h[r][k]]

\* into[key] = v
setitem(h, into, key, v) ==
    [h EXCEPT ![into] = [k \in DOMAIN h[into] \cup {key} |->
                            IF k = key THEN v ELSE h[into][k]]]

\* line 70 that leaves the value of into_this in place
overwrite_keep(h, into, key, v) == h

\* line 70 that removes the key instead of storing the value
overwrite_drop(h, into, key, v) ==
    [h EXCEPT ![into] = [k \in DOMAIN h[into] \ {key} |-> h[into][k]]]

\* line 70: into_this[key] = value
overwrite(h, into, key, v) == setitem(h, into, key, v)

\* from_this.items() in iteration order
items(d, order) == SelectSeq(order, LAMBDA k : k \in DOMAIN d)

RECURSIVE merge_items(_, _, _, _, _)
RECURSIVE merge(_, _, _, _)
\* lines 62-70: the loop over the items still to visit
merge_items(h, from, into, order, todo) ==
    IF todo = << >> THEN h
    ELSE LET key == Head(todo)
             value == h[from][key]
             h1 == IF key \notin DOMAIN h[into]
                   THEN setitem(h, into, key, value)
                   ELSE IF is_dict(value) /\ is_dict(h[into][key])
                   THEN merge(h, value.ref, h[into][key].ref, order)
                   ELSE overwrite(h, into, key, value)
         IN  merge_items(h1, from, into, order, Tail(todo))

\* merge_dicts(from_this=from, into_this=into), lines 60-70, on heap h
merge(h, from, into, order) ==
    merge_items(h, from, into, order, items(h[from], order))

\* one call merge_dicts(from_this=from_this, into_this=into_this)
merge_dicts ==
    /\ Len(merged) < MaxMerges
    /\ \E order \in Orders :
          LET h == merge(heap, from_this, into_this, order)
          IN  /\ heap' = h
              /\ merged' = Append(merged, contents(h, into_this))
    /\ UNCHANGED <<from_this, into_this, given>>
    /\ UNCHANGED <<cancel_vars, logger_vars, retry_vars>>

\* from_this and into_this are two dict literals
InitMerge ==
    /\ \E F \in Dicts(MaxDepthFrom, 2), D \in Dicts(MaxDepthInto, 1) :
          /\ heap = allocate(F, D)
          /\ given = [from_this |-> F, into_this |-> D]
    /\ from_this = <<"from_this">>
    /\ into_this = <<"into_this">>
    /\ merged = << >>
    /\ NoCancel
    /\ NoLogger
    /\ NoRetry

NextMerge == merge_dicts

SpecMerge == InitMerge /\ [][NextMerge]_vars

----------------------------------------------------------------------------
(* Properties of cancel_and_wait, checked under SpecCancel *)

\* the call has ended
ended == outcome.kind # "none"

\* C1: cancel_and_wait on a running target that terminates with
\* CancelledError, made by a task whose cancelling() is 0 (no cancellation
\* request of its own when line 51 reads it, hence none at the call either),
\* returns normally: neither CancelledError nor RuntimeError.
C1_AcknowledgedCancellationReturns ==
    (ended /\ current_task.signalled /\ task.state = "cancelled"
           /\ current_task.cancelling = 0)
        => outcome.kind = "return"

\* the common case has happened: the target went through its cleanup, ended
\* with CancelledError and the call returned
C1_Witness ==
    /\ outcome.kind = "return"
    /\ current_task.signalled /\ current_task.cancelling = 0
    /\ task.state = "cancelled" /\ task.handling

\* C2 as stated: whenever the caller is cancelled while suspended in the wait,
\* the call ends with CancelledError whatever the target does.
C2_AlwaysCancelledError ==
    (ended /\ current_task.cancelled_waiting) => outcome.kind = "CancelledError"

\* C2 amended: a caller cancelled while suspended in the wait never returns
\* normally; it raises CancelledError when the target ended with
\* CancelledError or the request arrived after the target was done, and
\* otherwise RuntimeError (target returned) or the target's error.
C2_CancelledCallerNeverReturns ==
    (ended /\ current_task.cancelled_waiting) =>
        /\ outcome.kind # "return"
        /\ (task.state = "cancelled" \/ current_task.late_cancel)
               => outcome.kind = "CancelledError"
        /\ (task.state = "result" /\ ~current_task.late_cancel)
               => outcome.kind = "RuntimeError"
        /\ (task.state = "exception" /\ ~current_task.late_cancel)
               => outcome.kind = "TaskError"

\* the caller was cancelled while the target was still in its cleanup and the
\* cancellation reached the caller's caller
C2_Witness ==
    /\ outcome.kind = "CancelledError"
    /\ current_task.cancelled_waiting /\ ~current_task.late_cancel
    /\ task.handling /\ task.cancelling = 2

\* C3 as stated: a target that catches its cancellation and returns normally
\* always makes cancel_and_wait raise RuntimeError naming the task.
C3_SuppressedAlwaysRuntimeError ==
    (ended /\ current_task.signalled /\ task.state = "result" /\ task.seen_cancel)
        => (outcome.kind = "RuntimeError" /\ outcome.names = task.name)

\* C3 amended: such a target makes cancel_and_wait raise RuntimeError naming
\* the task, except when the caller's own task is cancelled after the target
\* has returned and before the caller resumes: then CancelledError is raised.
\* The call never returns normally.
C3_SuppressedRaises ==
    (ended /\ current_task.signalled /\ task.state = "result" /\ task.seen_cancel)
        => IF current_task.late_cancel
           THEN outcome.kind = "CancelledError"
           ELSE outcome.kind = "RuntimeError" /\ outcome.names = task.name

\* a target that suppressed the cancellation was reported by name
C3_Witness ==
    /\ outcome.kind = "RuntimeError" /\ outcome.names = task.name
    /\ current_task.signalled /\ task.seen_cancel /\ task.state = "result"
    /\ ~current_task.cancelled_waiting

\* C4 as stated: a target that ends with a non-cancellation error is reported
\* like one that returns a value, by a RuntimeError naming the task.
C4_TaskErrorIsRuntimeError ==
    (ended /\ task.state = "exception")
        => (outcome.kind = "RuntimeError" /\ outcome.names = task.name)

\* C4 amended: when the target ends with a non-cancellation error,
\* cancel_and_wait neither returns nor raises RuntimeError: the target's own
\* error propagates unchanged out of `await task` (CancelledError instead when
\* the caller's task is cancelled after the target ended, before it resumes).
C4_TaskErrorPropagates ==
    (ended /\ task.state = "exception")
        => outcome.kind = (IF current_task.late_cancel THEN "CancelledError"
                                                       ELSE "TaskError")

\* the error of a cancelled target came out of the call
C4_Witness ==
    /\ outcome.kind = "TaskError" /\ current_task.signalled
    /\ task.state = "exception" /\ task.seen_cancel

\* C5: once cancellation has been signalled the call does not end before the
\* target is in a terminal state, and the target has no side effect after the
\* call ended.
C5_WaitsForTermination ==
    [][ /\ outcome'.kind # "none" => task'.state # "pending"
        /\ outcome.kind # "none" => marker' = marker ]_vars

\* the side effect of the target's cleanup was made before the call returned
C5_Witness ==
    /\ outcome.kind = "return" /\ current_task.signalled
    /\ marker = <<"model started", "model cancelled">>

\* C6 as stated: every call either returns normally (the target observed the
\* cancellation) or re-raises CancelledError because the caller was cancelled
\* during the wait; there is no third outcome.
C6_TwoOutcomes ==
    ended => \/ outcome.kind = "return" /\ task.state = "cancelled"
             \/ outcome.kind = "CancelledError" /\ current_task.cancelled_waiting

\* C6 amended: every call that ends has exactly one of four outcomes: it
\* returns normally (exactly when the awaited task ended with CancelledError
\* and the caller has no cancellation request), raises CancelledError (only
\* when the caller's cancelling() > 0), raises RuntimeError naming the task
\* (only when the task returned normally), or raises the task's own error
\* (only when the task ended with it).
C6_FourOutcomes ==
    ended =>
        /\ outcome.kind \in {"return", "CancelledError", "RuntimeError", "TaskError"}
        /\ outcome.kind = "return"
              <=> (task.state = "cancelled" /\ current_task.cancelling = 0)
        /\ outcome.kind = "CancelledError"
              => (current_task.cancelling > 0
                  /\ (task.state = "cancelled" \/ current_task.late_cancel))
        /\ outcome.kind = "RuntimeError"
              => (task.state = "result" /\ outcome.names = task.name)
        /\ outcome.kind = "TaskError" => task.state = "exception"

\* the caller's cancellation won over a target that had returned normally
C6_Witness ==
    /\ outcome.kind = "CancelledError"
    /\ current_task.late_cancel /\ task.state = "result"

----------------------------------------------------------------------------
(* Properties of ContextLogger, checked under SpecLogger *)

\* the log records of scope entry e whose tag is in tags
lines(e, tags) == {i \in DOMAIN log : log[i].entry = e /\ log[i].tag \in tags}

\* C7: in normal mode every synchronous scope entry logs exactly one STARTED
\* record and its exit exactly one terminal record, FINISHED iff the body
\* raised nothing and EXCEPTION iff it raised, never both, STARTED first.
C7_SyncScopeLines ==
    ~status_mode =>
        \A e \in DOMAIN scopes : scopes[e].kind = "sync" =>
            /\ Cardinality(lines(e, {"STARTED"})) = 1
            /\ Cardinality(lines(e, {"FINISHED", "EXCEPTION"}))
                   = (IF scopes[e].open THEN 0 ELSE 1)
            /\ ~scopes[e].open =>
                   /\ lines(e, {"FINISHED"}) # {} <=> scopes[e].exc = "None"
                   /\ lines(e, {"EXCEPTION"}) # {} <=> scopes[e].exc # "None"
            /\ \A i \in lines(e, {"STARTED"}) :
                   \A j \in lines(e, {"FINISHED", "EXCEPTION"}) : i < j

\* one synchronous scope ended with an exception, the next one without
C7_Witness ==
    /\ ~status_mode /\ Len(scopes) = 2
    /\ scopes[1].kind = "sync" /\ ~scopes[1].open /\ scopes[1].exc = "RuntimeError"
    /\ scopes[2].kind = "sync" /\ ~scopes[2].open /\ scopes[2].exc = "None"
    /\ lines(1, {"EXCEPTION"}) # {} /\ lines(2, {"FINISHED"}) # {}

\* C8 as stated: in status mode no STARTED or FINISHED record is logged and
\* every exit logs exactly one STATUS record, preceded by an EXCEPTION record
\* if the body raised.
C8_StatusAlwaysLogged ==
    status_mode =>
        /\ \A i \in DOMAIN log : log[i].tag \notin {"STARTED", "FINISHED"}
        /\ \A e \in DOMAIN scopes : ~scopes[e].open =>
               /\ Cardinality(lines(e, {"STATUS"})) = 1
               /\ scopes[e].exc # "None" =>
                      /\ lines(e, {"EXCEPTION"}) # {}
                      /\ \A i \in lines(e, {"EXCEPTION"}) :
                             \A j \in lines(e, {"STATUS"}) : i < j

\* C8 amended: in status mode no STARTED or FINISHED record is logged and
\* every exit logs exactly one record: STATUS if the body did not raise,
\* EXCEPTION (and no STATUS record) if it raised.
C8_StatusOrException ==
    status_mode =>
        /\ \A i \in DOMAIN log : log[i].tag \notin {"STARTED", "FINISHED"}
        /\ \A e \in DOMAIN scopes :
               IF scopes[e].open
               THEN lines(e, {"STATUS", "EXCEPTION"}) = {}
               ELSE /\ Cardinality(lines(e, {"STATUS", "EXCEPTION"})) = 1
                    /\ lines(e, {"STATUS"}) # {} <=> scopes[e].exc = "None"

\* a status-mode scope was left without an exception and logged STATUS
C8_Witness ==
    /\ status_mode
    /\ \E e \in DOMAIN scopes :
          /\ ~scopes[e].open /\ scopes[e].exc = "None"
          /\ Cardinality(lines(e, {"STATUS"})) = 1

\* C9: when the body of a status-mode scope raises, the exit logs an
\* EXCEPTION record for the message and neither a STARTED nor a STATUS record.
C9_StatusExceptionOnly ==
    status_mode =>
        \A e \in DOMAIN scopes : (~scopes[e].open /\ scopes[e].exc # "None") =>
            /\ Cardinality(lines(e, {"EXCEPTION"})) = 1
            /\ lines(e, {"STARTED", "STATUS"}) = {}

\* a status-mode scope was left by a RuntimeError and logged EXCEPTION
C9_Witness ==
    /\ status_mode
    /\ \E e \in DOMAIN scopes :
          /\ ~scopes[e].open /\ scopes[e].exc = "RuntimeError"
          /\ \E i \in lines(e, {"EXCEPTION"}) :
                log[i].postfixes[Len(log[i].postfixes)] = "- [RuntimeError]"

C11_PingStoppedBeforeExitLine ==
    \A e \in DOMAIN scopes : scopes[e].kind = "async" =>
        /\ (~scopes[e].open /\ ping_task.entry = e) => ping_task.state # "pending"
        /\ \A j \in lines(e, {"FINISHED", "EXCEPTION", "STATUS"}) :
               /\ ping_task.entry = e => ping_task.state # "pending"
               /\ \A i \in lines(e, {"IN PROGRESS"}) : i < j

\* an async scope that was pinged has finished and its ping task is cancelled
C11_Witness ==
    \E e \in DOMAIN scopes :
        /\ scopes[e].kind = "async" /\ ~scopes[e].open
        /\ lines(e, {"IN PROGRESS"}) # {} /\ lines(e, {"FINISHED"}) # {}
        /\ ping_task.entry = e /\ ping_task.state = "cancelled"

----------------------------------------------------------------------------
(* Properties of the pinged async scope, checked under SpecPing *)

\* the records of scope e are in the order STARTED, IN PROGRESS, terminal
ordered(e) ==
    /\ \A i \in lines(e, {"STARTED"}) : \A j \in lines(e, {"IN PROGRESS"}) : i < j
    /\ \A i \in lines(e, {"IN PROGRESS"}) :
           \A j \in lines(e, {"FINISHED", "EXCEPTION"}) : i < j

\* without a positive ping or in status mode there is no ping task and no
\* IN PROGRESS record
no_pings ==
    (ping <= 0 \/ status_mode) =>
        /\ ping_task = NoTask
        /\ \A i \in DOMAIN log : log[i].tag # "IN PROGRESS"

----------------------------------------------------------------------------
(* Properties of the postfixes, checked under SpecLogger *)

\* s is an initial part of t
prefix(s, t) == Len(s) <= Len(t) /\ \A i \in DOMAIN s : s[i] = t[i]

\* this step logs the exit record of a scope
exit_logged ==
    /\ Len(log') = Len(log) + 1
    /\ log'[Len(log')].tag \in {"FINISHED", "EXCEPTION", "STATUS"}

\* C13: add_postfix appends to the list and nothing is ever taken from it; the
\* exit record renders the whole list in the order of the calls, and when the
\* body raised the record is rendered with one more postfix, naming the type
\* of the exception, after all the others: it is the last postfix of every
\* EXCEPTION record.
C13_ExitLinePostfixes ==
    /\ [](\A j \in DOMAIN log : log[j].tag = "EXCEPTION" =>
            /\ log[j].postfixes # << >>
            /\ log[j].postfixes[Len(log[j].postfixes)]
                   = auto_postfix(scopes[log[j].entry].exc))
    /\ [][/\ prefix(postfixes, postfixes')
          /\ exit_logged =>
               LET l == log'[Len(log')]
                   exc == scopes'[l.entry].exc
               IN  l.postfixes = IF exc = "None" THEN postfixes
                                 ELSE Append(postfixes, auto_postfix(exc))]_vars

\* an EXCEPTION record rendered with two postfixes of the body, in the order
\* of the calls, and the postfix of the exception after them
C13_Witness ==
    \E j \in DOMAIN log :
        /\ log[j].tag = "EXCEPTION"
        /\ log[j].postfixes = <<"more", "postinfo", "- [ValueError]">>

----------------------------------------------------------------------------
(* Properties of retry, checked under SpecRetry *)

\* the smaller of two numbers
Min(a, b) == IF a <= b THEN a ELSE b

\* the wrapper has returned or raised
wrapper_ended == retry_pc \in {"returned", "raised"}

\* C14: for max_tries >= 1 and a function that raises on its first k calls,
\* the wrapper calls the function with its own arguments, never more than
\* min(k + 1, max_tries) times and exactly that often when it ends; with
\* k < max_tries it returns the value of call k + 1, otherwise it raises the
\* error of call max_tries unchanged.
C14_CallsAndResult ==
    max_tries >= 1 =>
        /\ \A j \in call_events(trace) : trace[j].args = args
        /\ Cardinality(call_events(trace)) <= Min(side_effect + 1, max_tries)
        /\ wrapper_ended =>
              /\ Cardinality(call_events(trace)) = Min(side_effect + 1, max_tries)
              /\ trace[Len(trace)].ev = "call"
              /\ result = IF side_effect < max_tries
                          THEN [kind |-> "return",
                                value |-> return_value(side_effect + 1, args)]
                          ELSE [kind |-> "raise", value |-> error(max_tries)]

\* two failures and a success on the third and last allowed try
C14_Witness ==
    /\ side_effect = 2 /\ max_tries = 3 /\ retry_pc = "returned"
    /\ Cardinality(call_events(trace)) = 3
    /\ current_try = 2

\* the n-th call of func is at position j of the trace and raised
failed_call(j) == j \in call_events(trace) /\ func_raises(trace[j].n)

\* two calls of func with no call between them
consecutive(j1, j2) ==
    /\ j1 \in call_events(trace) /\ j2 \in call_events(trace) /\ j1 < j2
    /\ \A m \in call_events(trace) : ~(j1 < m /\ m < j2)

\* the delays: none before the first call, exactly one sleep of `delay`
\* seconds between two consecutive calls, nothing after a successful call and
\* no sleep after the last call of a wrapper that has ended; no warning when
\* the logger is suppressed
delays_between_calls ==
    /\ trace # << >> => trace[1].ev = "call"
    /\ \A j1, j2 \in DOMAIN trace : consecutive(j1, j2) =>
          /\ Cardinality({m \in DOMAIN trace :
                             j1 < m /\ m < j2 /\ trace[m].ev = "sleep"}) = 1
          /\ \A m \in DOMAIN trace :
                 (j1 < m /\ m < j2 /\ trace[m].ev = "sleep") => trace[m].delay = delay
    /\ \A j \in call_events(trace) : ~func_raises(trace[j].n) => j = Len(trace)
    /\ wrapper_ended => trace[Len(trace)].ev = "call"
    /\ suppress_logger => \A j \in DOMAIN trace : trace[j].ev # "warning"

\* the failed call at position j is followed at once by its warning
logged(j) ==
    /\ j < Len(trace)
    /\ trace[j + 1] = warning(error(trace[j].n), trace[j].n - 1)

\* C15 as stated: exactly one delay between two consecutive calls, none
\* before the first call or after a successful one, and every failed attempt
\* is logged when logging is not suppressed.
C15_EveryFailureLogged ==
    /\ delays_between_calls
    /\ ~suppress_logger => \A j \in DOMAIN trace : failed_call(j) => logged(j)

\* C15 amended: exactly one delay between two consecutive calls, none before
\* the first call or after a successful one; a failed attempt that is not the
\* max_tries-th is logged (when logging is not suppressed) and then followed
\* by the delay; the max_tries-th failed attempt is re-raised at once, with
\* no log record and no delay.
C15_FailureLoggedUnlessLast ==
    /\ delays_between_calls
    /\ \A j \in DOMAIN trace : failed_call(j) =>
          IF trace[j].n < max_tries
          THEN /\ ~suppress_logger =>
                      (logged(j) /\ j + 2 <= Len(trace) /\ trace[j + 2].ev = "sleep")
               /\ suppress_logger =>
                      (j < Len(trace) /\ trace[j + 1].ev = "sleep")
          ELSE j = Len(trace) /\ retry_pc = "raised"

\* a logged failure, the delay, and then the failure that exhausts the tries
C15_Witness ==
    /\ max_tries = 2 /\ side_effect >= 2 /\ ~suppress_logger /\ delay = 1
    /\ retry_pc = "raised"
    /\ Len(trace) = 4 /\ trace[2].ev = "warning" /\ trace[3].ev = "sleep"
    /\ trace[4].ev = "call"

\* C16: with max_tries <= 0 the call retry(...) raises ValueError, with or
\* without func: no decorator and no wrapper is ever returned and func is
\* never called; with max_tries >= 1 the call does not raise.
C16_RejectedAtDecoration ==
    /\ max_tries <= 0 =>
          /\ retry_pc \in {"retry", "ValueError"}
          /\ trace = << >>
          /\ retry_pc = "ValueError" =>
                result = [kind |-> "raise",
                          value |-> [kind |-> "ValueError", message |-> max_tries]]
    /\ max_tries >= 1 => retry_pc # "ValueError"

\* retry(func, max_tries=0) has raised ValueError
C16_Witness ==
    /\ max_tries = 0 /\ func = "mock_func" /\ retry_pc = "ValueError"
    /\ result.kind = "raise"

----------------------------------------------------------------------------
(* Properties of merge_dicts, checked under SpecMerge *)

\* the key-wise recursive merge of dict value F into dict value D
RECURSIVE key_wise_merge(_, _)
key_wise_merge(F, D) ==
    [k \in DOMAIN D \cup DOMAIN F |->
        IF k \notin DOMAIN F THEN D[k]
        ELSE IF k \notin DOMAIN D THEN F[k]
        ELSE IF "dict" \in DOMAIN F[k] /\ "dict" \in DOMAIN D[k]
        THEN [dict |-> key_wise_merge(F[k].dict, D[k].dict)]
        ELSE F[k]]

\* C17: after merge_dicts(from_this=F, into_this=D) the keys of D are the
\* keys of D and F together; a key of F absent from D has the value of F, a
\* key whose values are both dicts has their recursive key-wise merge, any
\* other key of F has the value of F, and a key of D not in F keeps its
\* value, at every level; an empty F leaves D unchanged.
C17_KeyWiseMerge ==
    Len(merged) >= 1 =>
        LET F == given.from_this
            D == given.into_this
            R == merged[1]
        IN  /\ DOMAIN R = DOMAIN D \cup DOMAIN F
            /\ \A k \in DOMAIN D \ DOMAIN F : R[k] = D[k]
            /\ \A k \in DOMAIN F \ DOMAIN D : R[k] = F[k]
            /\ R = key_wise_merge(F, D)
            /\ DOMAIN F = {} => R = D

\* a nested dict merged key-wise, a nested key kept, one overwritten and a
\* top-level key inserted
C17_Witness ==
    /\ Len(merged) >= 1
    /\ given.into_this = [a |-> [dict |-> [a |-> [leaf |-> 1], b |-> [leaf |-> 1]]]]
    /\ given.from_this = [a |-> [dict |-> [b |-> [leaf |-> 2]]], b |-> [leaf |-> 2]]
    /\ merged[1] = [a |-> [dict |-> [a |-> [leaf |-> 1], b |-> [leaf |-> 2]]],
                    b |-> [leaf |-> 2]]

\* C18: a second merge_dicts with the same from_this leaves into_this equal
\* to its value after the first.
C18_IdempotentInSource ==
    \A n \in DOMAIN merged : n >= 2 => merged[n] = merged[1]

\* the first call changed into_this and stored a dict object of from_this in
\* it, and the second call has merged that object into itself
C18_Witness ==
    /\ Len(merged) = 2
    /\ merged[1] # given.into_this
    /\ "a" \in DOMAIN heap[into_this]
    /\ heap[into_this]["a"] = [ref |-> <<"from_this", "a">>]
    /\ heap[<<"from_this", "a">>] # << >>

----------------------------------------------------------------------------
(* Properties of the exit of a scope and of re-use of the logger, checked  *)
(* under SpecLogger                                                         *)

\* C19: every exit of an async scope leaves the logger not running and with
\* exactly one exit record of that scope, whether or not the body raised and
\* also when the task is cancelled while __aexit__ awaits the ping task.
C19_AsyncExitAlwaysLogs ==
    \A e \in DOMAIN scopes : (scopes[e].kind = "async" /\ ~scopes[e].open) =>
        /\ Cardinality(lines(e, {"FINISHED", "EXCEPTION", "STATUS"})) = 1
        /\ e = Len(scopes) => ~running

\* the postfixes that name the type of an exception
AutoPostfixes == {auto_postfix(x) : x \in Exceptions \cup {"CancelledError"}}

\* C20: when the logger is entered again after an exit, the exit record of
\* the later scope renders only what was added during that scope and its own
\* exception postfix: nothing that the list held when the scope was entered,
\* and no exception postfix of an earlier scope.
C20_NoPersistence ==
    \A e \in DOMAIN scopes : e >= 2 =>
        \A j \in lines(e, {"FINISHED", "EXCEPTION", "STATUS"}) :
            /\ \A s \in lines(e, {"STARTED"}) :
                   ~(log[s].postfixes # << >>
                     /\ prefix(log[s].postfixes, log[j].postfixes))
            /\ Cardinality({n \in DOMAIN log[j].postfixes :
                               log[j].postfixes[n] \in AutoPostfixes})
                   = IF scopes[e].exc = "None" THEN 0 ELSE 1

====
